---- MODULE Spec2Model ----
(***************************************************************************)
(* Model of cloudfoundry_client/operations/push.py (class PushOperation):  *)
(* the manifest-driven push of applications to a Cloud Foundry space.      *)
(*                                                                         *)
(* Python values are modelled as follows.                                  *)
(*   str          a sequence of one-character strings, <<"s","d">> = 'sd'  *)
(*   dict         a function whose DOMAIN is the set of keys present       *)
(*   list         a sequence                                               *)
(*   x or None    None = {} and a present value x = {x} (Some(x))          *)
(*   raise        the operator returns with err set; callers propagate it  *)
(***************************************************************************)
EXTENDS Integers, Sequences, FiniteSets, TLC

\* ------------------------------------------------------------------ bounds
MaxRoutes == 2
MaxEntries == 2
MaxRuns == 2

\* ------------------------------------------------------- python primitives
None == {}
Some(x) == {x}
The(o) == CHOOSE x \in o : TRUE

\* dict.get(key, default)
Get(d, k, default) == IF k \in DOMAIN d THEN d[k] ELSE default

\* str.find(c): 0-based index of the first occurrence, -1 when absent
Find(s, c) ==
    IF \E i \in 1..Len(s) : s[i] = c
    THEN (CHOOSE i \in 1..Len(s) : s[i] = c /\ \A j \in 1..(i - 1) : s[j] /= c) - 1
    ELSE -1

\* s[:idx] and s[idx:] for 0 <= idx <= len(s)
Upto(s, idx) == SubSeq(s, 1, idx)
From(s, idx) == SubSeq(s, idx + 1, Len(s))

Digits == <<"0", "1", "2", "3", "4", "5", "6", "7", "8", "9">>
IsDigit(c) == \E d \in 1..Len(Digits) : Digits[d] = c
DigitValue(c) == (CHOOSE d \in 1..Len(Digits) : Digits[d] = c) - 1

RECURSIVE IntOfDigits(_)
IntOfDigits(s) ==
    IF s = <<>> THEN 0
    ELSE (IntOfDigits(Upto(s, Len(s) - 1)) * Len(Digits)) + DigitValue(s[Len(s)])

\* int(s) of a str: ValueError unless s is a non-empty run of decimal digits
int(s) ==
    IF s /= <<>> /\ \A i \in 1..Len(s) : IsDigit(s[i])
    THEN [err |-> "none", val |-> IntOfDigits(s)]
    ELSE [err |-> "ValueError", val |-> 0]

\* '%d' % n for n >= 0
RECURSIVE FormatInt(_)
FormatInt(n) ==
    IF n < Len(Digits) THEN <<Digits[n + 1]>>
    ELSE FormatInt(n \div Len(Digits)) \o <<Digits[(n % Len(Digits)) + 1]>>

\* An exception: the kind the specification names it by (the Python class for
\* the ones the code does not raise itself) and the line of push.py raising it.
NoError == [kind |-> "none", at |-> "-"]
Error(kind, at) == [kind |-> kind, at |-> at]

\* cloudfoundry_client.imported.urlparse applied to a declared route: the
\* network location is the part before the first '/', the path is the rest.
urlparse(url) ==
    LET slash == Find(url, "/") IN
    IF slash < 0 THEN [netloc |-> url, path |-> <<>>]
    ELSE [netloc |-> Upto(url, slash), path |-> From(url, slash)]

\* ------------------------------------------------------------ _split_route
\* A faulty _split_route: the colon is accepted up to the last character but
\* one (len - 1 in place of len - 2).
_split_route_margin_one(requested_route) ==
    LET route_parsed == urlparse(requested_route["route"])
        netloc == route_parsed.netloc
        idx == Find(netloc, ":")
        path == IF route_parsed.path = <<"/">> THEN <<>> ELSE route_parsed.path
    IN  IF 0 < idx /\ idx < Len(netloc) - 1
        THEN LET port == int(From(netloc, idx + 1)) IN
             IF port.err /= "none"
             THEN [err |-> Error(port.err, "155"), domain |-> <<>>, port |-> None, path |-> <<>>]
             ELSE [err |-> NoError, domain |-> Upto(netloc, idx),
                   port |-> Some(port.val), path |-> path]
        ELSE IF idx >= 0
        THEN [err |-> Error("InvalidRouteFormat", "157"),
              domain |-> <<>>, port |-> None, path |-> <<>>]
        ELSE [err |-> NoError, domain |-> netloc, port |-> None, path |-> path]

_split_route(requested_route) ==
    LET route_parsed == urlparse(requested_route["route"])
        netloc == route_parsed.netloc
        idx == Find(netloc, ":")
        path == IF route_parsed.path = <<"/">> THEN <<>> ELSE route_parsed.path
    IN  IF 0 < idx /\ idx < Len(netloc) - 2
        THEN LET port == int(From(netloc, idx + 1)) IN
             IF port.err /= "none"
             THEN [err |-> Error(port.err, "155"), domain |-> <<>>, port |-> None, path |-> <<>>]
             ELSE [err |-> NoError, domain |-> Upto(netloc, idx),
                   port |-> Some(port.val), path |-> path]
        ELSE IF idx >= 0
        THEN [err |-> Error("InvalidRouteFormat", "157"),
              domain |-> <<>>, port |-> None, path |-> <<>>]
        ELSE [err |-> NoError, domain |-> netloc, port |-> None, path |-> path]

\* ---------------------------------------------------------- _resolve_domain
\* {domain['entity']['name']: domain for domain in listing}: a later entry of
\* the listing replaces an earlier one of the same name.
DomainDict(listing) ==
    [n \in {listing[i]["entity"]["name"] : i \in 1..Len(listing)} |->
        listing[CHOOSE i \in 1..Len(listing) :
                    /\ listing[i]["entity"]["name"] = n
                    /\ \A j \in (i + 1)..Len(listing) : listing[j]["entity"]["name"] /= n]]

\* One pass of the loop body over a single scope; found = FALSE falls through
\* to the next scope.
ResolveIn(route, domains) ==
    IF route \in DOMAIN domains
    THEN [found |-> TRUE, host |-> <<>>, domain_name |-> route, domain |-> domains[route]]
    ELSE LET idx == Find(route, ".") IN
         IF 0 < idx /\ idx < Len(route) - 2 /\ From(route, idx + 1) \in DOMAIN domains
         THEN [found |-> TRUE, host |-> Upto(route, idx),
               domain_name |-> From(route, idx + 1),
               domain |-> domains[From(route, idx + 1)]]
         ELSE [found |-> FALSE]

\* A faulty _resolve_domain: the full route string is tried as a domain name in
\* both scopes before it is split in either.
_resolve_domain_exact_first(route, private_domains, shared_domains) ==
    LET first == ResolveIn(route, private_domains)
        second == ResolveIn(route, shared_domains)
    IN  IF route \in DOMAIN private_domains
        THEN [err |-> NoError, host |-> Some(<<>>),
              domain_name |-> route, domain |-> private_domains[route]]
        ELSE IF route \in DOMAIN shared_domains
        THEN [err |-> NoError, host |-> Some(<<>>),
              domain_name |-> route, domain |-> shared_domains[route]]
        ELSE IF first.found
        THEN [err |-> NoError, host |-> Some(first.host),
              domain_name |-> first.domain_name, domain |-> first.domain]
        ELSE IF second.found
        THEN [err |-> NoError, host |-> Some(second.host),
              domain_name |-> second.domain_name, domain |-> second.domain]
        ELSE [err |-> Error("DomainNotFound", "175")]

_resolve_domain(route, private_domains, shared_domains) ==
    LET first == ResolveIn(route, private_domains)
        second == ResolveIn(route, shared_domains)
    IN  IF first.found
        THEN [err |-> NoError, host |-> Some(first.host),
              domain_name |-> first.domain_name, domain |-> first.domain]
        ELSE IF second.found
        THEN [err |-> NoError, host |-> Some(second.host),
              domain_name |-> second.domain_name, domain |-> second.domain]
        ELSE [err |-> Error("DomainNotFound", "175")]

\* ------------------------------------------------------------ the platform
\* The platform behind self.client, as one record w:
\*   apps              the application records of the target space
\*   routes            the route resources
\*   app_routes        the associations <<application guid, route guid>>
\*   service_bindings  the bindings <<application guid, service instance guid>>
\*   next_guid         the guid the platform gives the next resource it creates
\*   log               the calls issued so far for the manifest entry at hand
\* A client call returns [w |-> the platform after it, ret |-> its result].
Call(name, args) == [call |-> name, args |-> args]
Logged(w, name, args) == [w EXCEPT !.log = Append(@, Call(name, args))]

space == [metadata |-> [guid |-> "space-1"]]

\* A set of resources as the list the platform returns: ascending guid.
RECURSIVE ByGuid(_)
ByGuid(S) ==
    IF S = {} THEN <<>>
    ELSE LET r == CHOOSE r \in S : \A o \in S : r["metadata"]["guid"] <= o["metadata"]["guid"]
         IN  <<r>> \o ByGuid(S \ {r})

\* app.routes()
app_routes_of(w, app) ==
    ByGuid({r \in w.routes : <<app["metadata"]["guid"], r["metadata"]["guid"]>> \in w.app_routes})

\* self.client.apps.get_first(name=..., space_guid=...)
apps_get_first(w, name, space_guid) ==
    LET found == {a \in w.apps : a["entity"]["name"] = name /\ a["entity"]["space_guid"] = space_guid}
    IN  IF found = {} THEN None ELSE Some(ByGuid(found)[1])

\* self.client.apps.create(request)
apps_create(w, request) ==
    LET created == [metadata |-> [guid |-> w.next_guid],
                    entity |-> [name |-> request["name"], space_guid |-> request["space_guid"]]]
    IN  [w |-> [Logged(w, "apps.create", <<request>>) EXCEPT
                    !.apps = @ \cup {created}, !.next_guid = @ + 1],
         ret |-> created]

\* self.client.apps.update(application_guid, **request)
apps_update(w, application_guid, request) ==
    LET before == CHOOSE a \in w.apps : a["metadata"]["guid"] = application_guid
        after == [before EXCEPT !["entity"] =
                    IF "environment_json" \in DOMAIN request
                    THEN ("environment_json" :> request["environment_json"]) @@ @
                    ELSE @]
    IN  [w |-> [Logged(w, "apps.update", <<application_guid, request>>) EXCEPT
                    !.apps = (@ \ {before}) \cup {after}],
         ret |-> after]

\* self.client.apps.remove_route(application_guid, route_guid)
apps_remove_route(w, application_guid, route_guid) ==
    [Logged(w, "apps.remove_route", <<application_guid, route_guid>>) EXCEPT
        !.app_routes = @ \ {<<application_guid, route_guid>>}]

\* self.client.apps.associate_route(application_guid, route_guid)
apps_associate_route(w, application_guid, route_guid) ==
    [Logged(w, "apps.associate_route", <<application_guid, route_guid>>) EXCEPT
        !.app_routes = @ \cup {<<application_guid, route_guid>>}]

\* self.client.routes.create_host_route(domain_guid, space_guid, host, path)
routes_create_host_route(w, domain_guid, space_guid, host, path) ==
    LET created == [metadata |-> [guid |-> w.next_guid],
                    entity |-> [domain_guid |-> domain_guid, space_guid |-> space_guid,
                                host |-> host, port |-> None, path |-> path]]
    IN  [w |-> [Logged(w, "routes.create_host_route", <<domain_guid, space_guid, host, path>>)
                    EXCEPT !.routes = @ \cup {created}, !.next_guid = @ + 1],
         ret |-> created]

\* self.client.routes.create_tcp_route(domain_guid, space_guid, port): with
\* port None the platform picks the port, here `assigned`.
routes_create_tcp_route(w, domain_guid, space_guid, port, assigned) ==
    LET created == [metadata |-> [guid |-> w.next_guid],
                    entity |-> [domain_guid |-> domain_guid, space_guid |-> space_guid,
                                host |-> None,
                                port |-> IF port = None THEN Some(assigned) ELSE port,
                                path |-> <<>>]]
    IN  [w |-> [Logged(w, "routes.create_tcp_route", <<domain_guid, space_guid, port>>)
                    EXCEPT !.routes = @ \cup {created}, !.next_guid = @ + 1],
         ret |-> created]

\* A method's outcome: the platform after it and the exception it raised.
Return(w) == [w |-> w, err |-> NoError]
Raise(w, kind, at) == [w |-> w, err |-> Error(kind, at)]

\* ------------------------------------------------------- _remove_all_routes
RECURSIVE RemoveFrom(_, _, _, _)
RemoveFrom(w, app, routes_, i) ==
    IF i > Len(routes_) THEN w
    ELSE RemoveFrom(apps_remove_route(w, app["metadata"]["guid"],
                                      routes_[i]["metadata"]["guid"]),
                    app, routes_, i + 1)

\* A faulty _remove_all_routes: the last route of the list is left associated.
_remove_all_routes_but_last(w, app, routes_) ==
    Return(RemoveFrom(w, app, Upto(routes_, IF routes_ = <<>> THEN 0 ELSE Len(routes_) - 1), 1))

_remove_all_routes(w, app, routes_) == Return(RemoveFrom(w, app, routes_, 1))

\* ------------------------------------------------------ _build_default_route
\* The first element of the listing that is not internal, None without one.
FirstNotInternal(listing) ==
    IF \E i \in 1..Len(listing) : ~listing[i]["entity"]["internal"]
    THEN Some(listing[CHOOSE i \in 1..Len(listing) :
                        /\ ~listing[i]["entity"]["internal"]
                        /\ \A j \in 1..(i - 1) : listing[j]["entity"]["internal"]])
    ELSE None

\* A faulty _build_default_route: the first shared domain is taken, internal
\* or not.
_build_default_route_any_domain(w, shared_listing, app, random_route, now, assigned) ==
    LET shared_domain == IF shared_listing = <<>> THEN None ELSE Some(shared_listing[1]) IN
    IF shared_domain = None THEN Raise(w, "ConfigurationError", "102")
    ELSE
      LET domain == The(shared_domain)
          made ==
            IF Get(domain["entity"], "router_group_type", "") = "tcp"
            THEN routes_create_tcp_route(w, domain["metadata"]["guid"],
                                         space["metadata"]["guid"], None, assigned)
            ELSE IF random_route
            THEN routes_create_host_route(w, domain["metadata"]["guid"],
                                          space["metadata"]["guid"],
                                          Some(app["entity"]["name"] \o <<"-">> \o FormatInt(now)),
                                          <<>>)
            ELSE routes_create_host_route(w, domain["metadata"]["guid"],
                                          space["metadata"]["guid"],
                                          Some(app["entity"]["name"]), <<>>)
      IN  Return(apps_associate_route(made.w, app["metadata"]["guid"],
                                      made.ret["metadata"]["guid"]))

\* now = int(time.time()); assigned = the port the platform picks
_build_default_route(w, shared_listing, app, random_route, now, assigned) ==
    LET shared_domain == FirstNotInternal(shared_listing) IN
    IF shared_domain = None THEN Raise(w, "ConfigurationError", "102")
    ELSE
      LET domain == The(shared_domain)
          made ==
            IF Get(domain["entity"], "router_group_type", "") = "tcp"
            THEN routes_create_tcp_route(w, domain["metadata"]["guid"],
                                         space["metadata"]["guid"], None, assigned)
            ELSE IF random_route
            THEN routes_create_host_route(w, domain["metadata"]["guid"],
                                          space["metadata"]["guid"],
                                          Some(app["entity"]["name"] \o <<"-">> \o FormatInt(now)),
                                          <<>>)
            ELSE routes_create_host_route(w, domain["metadata"]["guid"],
                                          space["metadata"]["guid"],
                                          Some(app["entity"]["name"]), <<>>)
      IN  Return(apps_associate_route(made.w, app["metadata"]["guid"],
                                      made.ret["metadata"]["guid"]))


\* ----------------------------------------------- _build_new_requested_routes
\* any(iterable) where every element is a list: a list is truthy when it is
\* not empty, whatever it holds.
AnyOfLists(lists) == \E i \in 1..Len(lists) : Len(lists[i]) > 0

\* s[key] for a str s and a str key: TypeError (string indices must be integers)
StrGetItem(s, key) == [err |-> "TypeError"]

\* Lines 134-135: one one-element list per existing route.
TcpMatches(existing_routes, domain, port) ==
    [i \in 1..Len(existing_routes) |->
        << /\ existing_routes[i]["entity"]["domain_guid"] = domain["metadata"]["guid"]
           /\ existing_routes[i]["entity"]["port"] = port >>]

\* Lines 140-141: one one-element list per existing route.
HostMatches(existing_routes, domain, host) ==
    [i \in 1..Len(existing_routes) |->
        << /\ existing_routes[i]["entity"]["domain_guid"] = domain["metadata"]["guid"]
           /\ existing_routes[i]["entity"]["host"] = host >>]

\* Lines 146-147.
AssociateCreated(made, app) ==
    Return(apps_associate_route(made.w, app["metadata"]["guid"], made.ret["metadata"]["guid"]))

\* A faulty loop body: the domain is resolved before the path and the port are
\* checked against each other.
RequestedRoute_resolve_first(w, private_domains, shared_domains, app, existing_routes, requested_route) ==
    LET split == _split_route(requested_route) IN
    IF split.err /= NoError THEN [w |-> w, err |-> split.err]
    ELSE
      LET resolved == _resolve_domain(split.domain, private_domains, shared_domains) IN
      IF resolved.err /= NoError THEN [w |-> w, err |-> resolved.err]
      ELSE IF Len(split.path) > 0 /\ split.port /= None
      THEN Raise(w, "ConflictingAttributes", "122")
      ELSE
        LET host == resolved.host
            domain_name == resolved.domain_name
            domain == resolved.domain
            port == split.port
            type == Get(domain["entity"], "router_group_type", "")
        IN  IF port /= None /\ host /= None
            THEN Raise(w, "ConflictingAttributes", "125")
            ELSE IF port /= None /\ type /= "tcp"
            THEN Raise(w, "UnsupportedPort", "130")
            ELSE IF type = "tcp" /\ port = None
            THEN Raise(w, "MissingPort", "132")
            ELSE IF type = "tcp"
            THEN IF ~AnyOfLists(TcpMatches(existing_routes, domain, port))
                 THEN AssociateCreated(
                        routes_create_tcp_route(w, domain["metadata"]["guid"],
                                                space["metadata"]["guid"], port, 0),
                        app)
                 ELSE Return(w)
            ELSE IF ~AnyOfLists(HostMatches(existing_routes, domain, host))
                 THEN LET metadata == StrGetItem(domain_name, "metadata") IN
                      IF metadata.err /= "none" THEN Raise(w, metadata.err, "142")
                      ELSE AssociateCreated(
                             routes_create_host_route(w, metadata["guid"],
                                                      space["metadata"]["guid"],
                                                      host, split.path),
                             app)
                 ELSE Return(w)

\* The body of the loop (lines 120-147) for one requested route.
RequestedRoute(w, private_domains, shared_domains, app, existing_routes, requested_route) ==
    LET split == _split_route(requested_route) IN
    IF split.err /= NoError THEN [w |-> w, err |-> split.err]
    ELSE IF Len(split.path) > 0 /\ split.port /= None
    THEN Raise(w, "ConflictingAttributes", "122")
    ELSE
      LET resolved == _resolve_domain(split.domain, private_domains, shared_domains) IN
      IF resolved.err /= NoError THEN [w |-> w, err |-> resolved.err]
      ELSE
        LET host == resolved.host
            domain_name == resolved.domain_name
            domain == resolved.domain
            port == split.port
            type == Get(domain["entity"], "router_group_type", "")
        IN  IF port /= None /\ host /= None
            THEN Raise(w, "ConflictingAttributes", "125")
            ELSE IF port /= None /\ type /= "tcp"
            THEN Raise(w, "UnsupportedPort", "130")
            ELSE IF type = "tcp" /\ port = None
            THEN Raise(w, "MissingPort", "132")
            ELSE IF type = "tcp"
            THEN IF ~AnyOfLists(TcpMatches(existing_routes, domain, port))
                 THEN AssociateCreated(
                        routes_create_tcp_route(w, domain["metadata"]["guid"],
                                                space["metadata"]["guid"], port, 0),
                        app)
                 ELSE Return(w)
            ELSE IF ~AnyOfLists(HostMatches(existing_routes, domain, host))
                 THEN LET metadata == StrGetItem(domain_name, "metadata") IN
                      IF metadata.err /= "none" THEN Raise(w, metadata.err, "142")
                      ELSE AssociateCreated(
                             routes_create_host_route(w, metadata["guid"],
                                                      space["metadata"]["guid"],
                                                      host, split.path),
                             app)
                 ELSE Return(w)

RECURSIVE RequestedFrom(_, _, _, _, _, _, _)
RequestedFrom(w, private_domains, shared_domains, app, existing_routes, requested_routes, i) ==
    IF i > Len(requested_routes) THEN Return(w)
    ELSE LET one == RequestedRoute(w, private_domains, shared_domains, app,
                                   existing_routes, requested_routes[i])
         IN  IF one.err /= NoError THEN one
             ELSE RequestedFrom(one.w, private_domains, shared_domains, app,
                                existing_routes, requested_routes, i + 1)

\* A faulty _build_new_requested_routes: the routes the application had are
\* detached before the declared ones are processed.
_build_new_requested_routes_detaching(w, organization, app, existing_routes, requested_routes) ==
    RequestedFrom(RemoveFrom(w, app, existing_routes, 1),
                  DomainDict(organization.private_domains),
                  DomainDict(organization.shared_domains),
                  app, existing_routes, requested_routes, 1)

\* organization = [private_domains |-> listing, shared_domains |-> listing]
_build_new_requested_routes(w, organization, app, existing_routes, requested_routes) ==
    RequestedFrom(w, DomainDict(organization.private_domains),
                  DomainDict(organization.shared_domains),
                  app, existing_routes, requested_routes, 1)

\* -------------------------------------------------------- _route_application
\* A faulty _route_application: the default route is built whenever no route
\* is declared, whether or not the application already has one.
_route_application_default_always(w, organization, app, app_manifest, now, assigned) ==
    LET existing_routes == app_routes_of(w, app) IN
    IF Get(app_manifest, "no-route", FALSE)
    THEN _remove_all_routes(w, app, existing_routes)
    ELSE IF "routes" \notin DOMAIN app_manifest \/ Len(app_manifest["routes"]) = 0
    THEN _build_default_route(w, organization.shared_domains, app,
                              Get(app_manifest, "random-route", FALSE), now, assigned)
    ELSE _build_new_requested_routes(w, organization, app, existing_routes,
                                     app_manifest["routes"])

_route_application(w, organization, app, app_manifest, now, assigned) ==
    LET existing_routes == app_routes_of(w, app) IN
    IF Get(app_manifest, "no-route", FALSE)
    THEN _remove_all_routes(w, app, existing_routes)
    ELSE IF /\ ("routes" \notin DOMAIN app_manifest \/ Len(app_manifest["routes"]) = 0)
            /\ Len(existing_routes) = 0
    THEN _build_default_route(w, organization.shared_domains, app,
                              Get(app_manifest, "random-route", FALSE), now, assigned)
    ELSE IF "routes" \notin DOMAIN app_manifest
    THEN Raise(w, "KeyError", "89")
    ELSE _build_new_requested_routes(w, organization, app, existing_routes,
                                     app_manifest["routes"])


\* ----------------------------------------------- _build_request_from_manifest
\* dict.update(other): the keys of other replace those of d
Update(d, other) == other @@ d
\* d without key k (dict.pop(k, None) when only the removal matters)
Without(d, k) == [x \in DOMAIN d \ {k} |-> d[x]]
EmptyDict == <<>>

\* self.client.stacks.get_first(name=...)
Stacks == {[metadata |-> [guid |-> "stack-1"], entity |-> [name |-> "cflinuxfs3"]]}
stacks_get_first(name) ==
    IF \E k \in Stacks : k["entity"]["name"] = name
    THEN Some(CHOOSE k \in Stacks : k["entity"]["name"] = name)
    ELSE None

_build_request_from_manifest(app_manifest) ==
    LET copied == Update(EmptyDict, app_manifest)
        stack == IF "stack" \in DOMAIN app_manifest
                 THEN stacks_get_first(app_manifest["stack"]) ELSE None
        with_stack == IF stack /= None
                      THEN Update(copied, "stack_guid" :> The(stack)["metadata"]["guid"])
                      ELSE copied
        docker == IF "docker" \in DOMAIN with_stack THEN Some(with_stack["docker"]) ELSE None
        popped == Without(with_stack, "docker")
    IN  IF docker /= None /\ "image" \in DOMAIN The(docker)
        THEN LET image == Update(popped, ("docker_image" :> The(docker)["image"])
                                          @@ ("diego" :> TRUE))
             IN  IF "username" \in DOMAIN The(docker) /\ "password" \in DOMAIN The(docker)
                 THEN Update(image, "docker_credentials" :>
                                [username |-> The(docker)["username"],
                                 password |-> The(docker)["password"]])
                 ELSE image
        ELSE popped

\* --------------------------------------------------------- _merge_environment
\* d[key] of a dict without that key raises KeyError: app['entity'] at line 76.
_merge_environment(app, app_manifest) ==
    IF "entity" \notin DOMAIN app
    THEN [err |-> Error("KeyError", "76"), val |-> EmptyDict]
    ELSE LET environment == IF "environment_json" \in DOMAIN app["entity"]
                            THEN Update(EmptyDict, app["entity"]["environment_json"])
                            ELSE EmptyDict
         IN  [err |-> NoError,
              val |-> IF "env" \in DOMAIN app_manifest
                      THEN Update(environment, app_manifest["env"])
                      ELSE environment]

\* A method that returns a value: the platform after it, the exception it
\* raised and, without one, the value.
ReturnValue(w, ret) == [w |-> w, err |-> NoError, ret |-> ret]
RaiseValue(w, kind, at) == [w |-> w, err |-> Error(kind, at), ret |-> None]

\* -------------------------------------------------------- _create_application
_create_application(w, space_, app_manifest) ==
    LET request == Update(_build_request_from_manifest(app_manifest),
                          "space_guid" :> space_["metadata"]["guid"])
        defaulted == IF /\ Get(request, "health-check-type", "") = "http"
                        /\ "health-check-http-endpoint" \notin DOMAIN request
                     THEN Update(request, "health-check-http-endpoint" :> <<"/">>)
                     ELSE request
        created == apps_create(w, defaulted)
    IN  ReturnValue(created.w, Some(created.ret))

\* -------------------------------------------------------- _update_application
\* The parameters in the order the method declares them (line 51).
_update_application(w, app_manifest, app) ==
    LET request == _build_request_from_manifest(app_manifest)
        merged == _merge_environment(app, app_manifest)
    IN  IF merged.err /= NoError THEN [w |-> w, err |-> merged.err, ret |-> None]
        ELSE
          LET with_env == Update(request, "environment_json" :> merged.val)
              defaulted == IF /\ Get(with_env, "health-check-type", "") = "http"
                              /\ "health-check-http-endpoint" \notin DOMAIN with_env
                              /\ "health_check_http_endpoint" \notin DOMAIN app["entity"]
                           THEN Update(with_env, "health-check-http-endpoint" :> <<"/">>)
                           ELSE with_env
          IN  IF "metadata" \notin DOMAIN app THEN RaiseValue(w, "KeyError", "57")
              ELSE LET updated == apps_update(w, app["metadata"]["guid"], defaulted)
                   IN  ReturnValue(updated.w, Some(updated.ret))

\* ---------------------------------------------------------- _init_application
\* Line 41 passes (app, app_manifest) to _update_application(app_manifest, app).
_init_application(w, space_, app_manifest) ==
    LET app == apps_get_first(w, app_manifest["name"], space_["metadata"]["guid"]) IN
    IF app /= None
    THEN _update_application(w, The(app), app_manifest)
    ELSE _create_application(w, space_, app_manifest)

\* -------------------------------------------------------- _upload_application
_upload_application(w, app, app_manifest) == Raise(w, "NotImplementedError", "178")

\* ------------------------------------------------------------- _bind_services
ServiceInstances ==
    {[metadata |-> [guid |-> "si-db"], entity |-> [name |-> "db"]],
     [metadata |-> [guid |-> "si-mq"], entity |-> [name |-> "mq"]]}

\* next(space.service_instances(name=service_name), None)
service_instances_first(name) ==
    IF \E i \in ServiceInstances : i["entity"]["name"] = name
    THEN Some(CHOOSE i \in ServiceInstances : i["entity"]["name"] = name)
    ELSE None

\* self.client.service_bindings.create(application_guid, service_instance_guid)
service_bindings_create(w, application_guid, service_instance_guid) ==
    [Logged(w, "service_bindings.create", <<application_guid, service_instance_guid>>)
        EXCEPT !.service_bindings = @ \cup {<<application_guid, service_instance_guid>>}]

RECURSIVE BindFrom(_, _, _, _)
BindFrom(w, app, services, i) ==
    IF i > Len(services) THEN Return(w)
    ELSE LET service_instance == service_instances_first(services[i]) IN
         IF service_instance = None THEN Raise(w, "ServiceNotFound", "184")
         ELSE BindFrom(service_bindings_create(w, app["metadata"]["guid"],
                                               The(service_instance)["metadata"]["guid"]),
                       app, services, i + 1)

\* A faulty _bind_services: a name without an instance is passed over and the
\* names after it are bound; the error is raised at the end.
RECURSIVE BindPassingOver(_, _, _, _, _)
BindPassingOver(w, app, services, i, missed) ==
    IF i > Len(services)
    THEN IF missed THEN Raise(w, "ServiceNotFound", "184") ELSE Return(w)
    ELSE LET service_instance == service_instances_first(services[i]) IN
         IF service_instance = None THEN BindPassingOver(w, app, services, i + 1, TRUE)
         ELSE BindPassingOver(service_bindings_create(w, app["metadata"]["guid"],
                                                      The(service_instance)["metadata"]["guid"]),
                              app, services, i + 1, missed)

_bind_services_passing_over(w, app, app_manifest) ==
    BindPassingOver(w, app, Get(app_manifest, "services", <<>>), 1, FALSE)

_bind_services(w, app, app_manifest) ==
    BindFrom(w, app, Get(app_manifest, "services", <<>>), 1)

\* ------------------------------------------------------- _restart_application
_restart_application(w) ==
    Return(Logged(Logged(w, "apps.stop", <<>>), "apps.start", <<>>))


\* ------------------------------------------------------------------ inputs
Keyed(k, values) == {k :> v : v \in values}
Optional(k, values) == {EmptyDict} \cup Keyed(k, values)
Combine(A, B) == {a @@ b : a \in A, b \in B}
SeqsUpTo(S, n) == UNION {[1..k -> S] : k \in 0..n}

\* The domains of the organization, as (private listing, shared listing).
Domain(guid, name, internal, type) ==
    [metadata |-> [guid |-> guid],
     entity |-> ([name |-> name, internal |-> internal]
                 @@ IF type = "" THEN EmptyDict ELSE ("router_group_type" :> type))]
SharedHttp == Domain("g-sd", <<"s", "d">>, FALSE, "")
SharedTcp == Domain("g-td", <<"t", "d">>, FALSE, "tcp")
SharedInternal == Domain("g-in", <<"i", "n">>, TRUE, "")
PrivateHttp == Domain("g-pd", <<"s", "d">>, FALSE, "")
Organizations ==
    {[private_domains |-> <<PrivateHttp>>,
      shared_domains |-> <<SharedInternal, SharedHttp, SharedTcp>>],
     [private_domains |-> <<>>, shared_domains |-> <<SharedTcp, SharedHttp>>],
     [private_domains |-> <<>>, shared_domains |-> <<SharedInternal>>]}

\* The application 'a' that the space may already hold, and route resources
\* that may already exist and be associated with it.
AppA == [metadata |-> [guid |-> 1],
         entity |-> [name |-> <<"a">>, space_guid |-> "space-1",
                     environment_json |-> [A |-> "1"]]]
Route(guid, domain_guid, host, port, path) ==
    [metadata |-> [guid |-> guid],
     entity |-> [domain_guid |-> domain_guid, space_guid |-> "space-1",
                 host |-> host, port |-> port, path |-> path]]
ExistingRoutes ==
    {Route(2, "g-sd", Some(<<"h">>), None, <<>>),
     Route(3, "g-sd", Some(<<"g">>), None, <<>>),
     Route(4, "g-td", None, Some(44), <<>>)}
FirstNewGuid == 1 + Cardinality(ExistingRoutes) + 1

\* Declared routes: the strings a manifest may give as routes[i]['route'].
RouteStrings ==
    {<<"h", ".", "s", "d", "/", "c">>,            \* host h on the domain sd, path /c
     <<"s", "d">>,                                \* the domain sd itself
     <<"t", "d", ":", "4", "4">>,                 \* port 44 on the TCP domain td
     <<"t", "d">>,                                \* the TCP domain without a port
     <<"s", "d", ":", "4", "4">>,                 \* a port on a non-TCP domain
     <<"t", "d", ":", "4", "4", "/", "c">>,       \* a port and a path
     <<":", "4", "4">>,                           \* a colon at position 0
     <<"t", "d", ":", "4">>,                      \* a colon in the last two characters
     <<"a", ":", "4", ":", "4">>,                 \* two colons
     <<"h", ".", "x", "x">>,                      \* no such domain
     <<"x", "x", ":", "4", "4", "/", "c">>}       \* a port and a path, no such domain
RouteLists == SeqsUpTo({[route |-> r] : r \in RouteStrings}, MaxRoutes)

\* Manifest entries handed to _route_application on its own.
RouteEntries ==
    Combine(Keyed("name", {<<"a">>}),
    Combine(Optional("no-route", {TRUE}),
    Combine(Optional("random-route", {TRUE}),
            Optional("routes", RouteLists))))

\* Manifest entries handed to _init_application on its own.
DockerBlocks ==
    {[image |-> "img"],
     [image |-> "img", username |-> "u", password |-> "p"],
     [image |-> "img", username |-> "u"],
     [username |-> "u", password |-> "p"]}
InitEntries ==
    Combine(Keyed("name", {<<"a">>, <<"b">>}),
    Combine(Keyed("path", {"app.zip"}) \cup Keyed("docker", DockerBlocks),
    Combine(Optional("env", {[B |-> "2"], [A |-> "9", B |-> "2"]}),
    Combine(Optional("stack", {"cflinuxfs3", "nosuchstack"}),
            {EmptyDict,
             "health-check-type" :> "http",
             ("health-check-type" :> "http") @@ ("health-check-http-endpoint" :> <<"/", "u", "p">>),
             "health-check-type" :> "port"}))))

\* Manifest entries handed to push: a path or a docker image (or neither),
\* routes left to the default or declared, services that exist or do not.
PushEntries ==
    Combine(Keyed("name", {<<"a">>, <<"b">>}),
            Combine(Keyed("path", {"app.zip"}) \cup Keyed("docker", {[image |-> "img"]}),
            Combine(Optional("routes", {<<[route |-> <<"h", ".", "x", "x">>]>>}),
                    Optional("services", {<<"db", "mq">>, <<"db", "nosuch", "mq">>})))
            \cup {EmptyDict})
Manifests == UNION {[1..k -> PushEntries] : k \in 1..MaxEntries}

Times == {7, 12}
AssignedPorts == {1024}

\* ------------------------------------------------------------------- state
VARIABLES
    op,                \* the method under execution: "push" or the method called on its own
    manifest,          \* the manifest entries, in manifest order
    organization,      \* the organization's private and shared domain listings
    idx,               \* the manifest entry being processed
    pc,                \* the next step for that entry
    app,               \* the application _init_application returned, or None
    apps, routes, app_routes, service_bindings, next_guid,     \* the platform
    log,               \* log[i]: the calls issued for entry i (for run i of a method called on its own)
    err,               \* the exception that ended the operation, NoError without one
    ret                \* Some(the value) a function called on its own returned, else None

vars == <<op, manifest, organization, idx, pc, app, apps, routes, app_routes,
          service_bindings, next_guid, log, err, ret>>

\* The platform as the method about to run sees it, with the calls issued so
\* far for the current entry.
World == [apps |-> apps, routes |-> routes, app_routes |-> app_routes,
          service_bindings |-> service_bindings, next_guid |-> next_guid,
          log |-> log[Len(log)]]

\* The platform and the log after a method left it as w.
Becomes(w) ==
    /\ apps' = w.apps
    /\ routes' = w.routes
    /\ app_routes' = w.app_routes
    /\ service_bindings' = w.service_bindings
    /\ next_guid' = w.next_guid
    /\ log' = [log EXCEPT ![Len(log)] = w.log]

\* The step after the current entry is finished: the next entry, or the end.
Advance ==
    /\ idx' = idx + 1
    /\ pc' = IF idx + 1 > Len(manifest) THEN "done" ELSE "entry"
    /\ log' = IF idx + 1 > Len(manifest) THEN log ELSE Append(log, <<>>)

\* -------------------------------------------------------- _route_application
\* A faulty routing step: a docker entry goes from route reconciliation
\* straight to the restart.
RouteApplication_skips_bind ==
    /\ pc = "route"
    /\ \E now \in Times, assigned \in AssignedPorts :
        LET r == _route_application(World, organization, The(app), manifest[idx],
                                    now, assigned)
        IN  /\ Becomes(r.w)
            /\ err' = r.err
            /\ pc' = IF r.err /= NoError THEN "failed"
                     ELSE IF op /= "push" THEN "returned"
                     ELSE IF "path" \in DOMAIN manifest[idx] THEN "upload"
                     ELSE "restart"
    /\ UNCHANGED <<ret, op, manifest, organization, idx, app>>

\* A faulty routing step: an exception of route reconciliation is swallowed
\* and the entry carries on with its next step.
RouteApplication_carries_on ==
    /\ pc = "route"
    /\ \E now \in Times, assigned \in AssignedPorts :
        LET r == _route_application(World, organization, The(app), manifest[idx],
                                    now, assigned)
        IN  /\ Becomes(r.w)
            /\ err' = r.err
            /\ pc' = IF op /= "push" THEN "returned"
                     ELSE IF "path" \in DOMAIN manifest[idx] THEN "upload"
                     ELSE "bind"
    /\ UNCHANGED <<ret, op, manifest, organization, idx, app>>

RouteApplication ==
    /\ pc = "route"
    /\ \E now \in Times, assigned \in AssignedPorts :
        LET r == _route_application(World, organization, The(app), manifest[idx],
                                    now, assigned)
        IN  /\ Becomes(r.w)
            /\ err' = r.err
            /\ pc' = IF r.err /= NoError THEN "failed"
                     ELSE IF op /= "push" THEN "returned"
                     ELSE IF "path" \in DOMAIN manifest[idx] THEN "upload"
                     ELSE "bind"
    /\ UNCHANGED <<ret, op, manifest, organization, idx, app>>

\* _route_application called again, after it returned, with the same
\* application and entry (a second push of an unchanged manifest).
Rerun ==
    /\ op = "_route_application"
    /\ pc = "returned"
    /\ Len(log) < MaxRuns
    /\ pc' = "route"
    /\ err' = NoError
    /\ log' = Append(log, <<>>)
    /\ UNCHANGED <<ret, op, manifest, organization, idx, app, apps, routes, app_routes,
                   service_bindings, next_guid>>

InitRoute ==
    /\ op = "_route_application"
    /\ manifest \in {<<e>> : e \in RouteEntries}
    /\ organization \in Organizations
    /\ idx = 1
    /\ pc = "route"
    /\ app = Some(AppA)
    /\ apps = {AppA}
    /\ routes = ExistingRoutes
    /\ app_routes \in SUBSET {<<AppA["metadata"]["guid"], r["metadata"]["guid"]>> :
                                r \in ExistingRoutes}
    /\ service_bindings = {}
    /\ next_guid = FirstNewGuid
    /\ log = <<<<>>>>
    /\ err = NoError
    /\ ret = None

NextRoute == RouteApplication \/ Rerun

SpecRoute == InitRoute /\ [][NextRoute]_vars

\* ------------------------------------------------------------ _resolve_domain
\* _resolve_domain called on its own with the domain part of the declared
\* route and the two dicts of lines 117-118, as line 123 calls it; route
\* reconciliation of the same entry follows.
ResolveDomain ==
    /\ pc = "resolve"
    /\ LET r == _resolve_domain(_split_route(manifest[idx]["routes"][1]).domain,
                                DomainDict(organization.private_domains),
                                DomainDict(organization.shared_domains))
       IN  /\ ret' = IF r.err = NoError
                     THEN Some(<<The(r.host), r.domain_name, r.domain>>)
                     ELSE None
           /\ err' = r.err
    /\ pc' = "route"
    /\ UNCHANGED <<op, manifest, organization, idx, app, apps, routes, app_routes,
                   service_bindings, next_guid, log>>

\* Organizations whose scopes hold the domains 'sd', 'h.sd' and 's' in every
\* combination, and routes without port and path to resolve in them.
PrivateSd == Domain("p-sd", <<"s", "d">>, FALSE, "")
PrivateHSd == Domain("p-hsd", <<"h", ".", "s", "d">>, FALSE, "")
SharedSd == Domain("s-sd", <<"s", "d">>, FALSE, "")
SharedHSd == Domain("s-hsd", <<"h", ".", "s", "d">>, FALSE, "")
SharedS == Domain("s-s", <<"s">>, FALSE, "")
PrivateListings == {<<>>, <<PrivateSd>>, <<PrivateHSd>>, <<PrivateSd, PrivateHSd>>}
SharedListings ==
    {<<>>, <<SharedSd>>, <<SharedHSd>>, <<SharedS>>, <<SharedSd, SharedHSd>>,
     <<SharedS, SharedSd>>, <<SharedHSd, SharedS>>, <<SharedS, SharedHSd, SharedSd>>}
ResolveOrganizations ==
    {[private_domains |-> p, shared_domains |-> s] :
        p \in PrivateListings, s \in SharedListings}
ResolveStrings ==
    {<<"s", "d">>,                                \* a domain name
     <<"h", ".", "s", "d">>,                      \* a domain name, or host h on sd
     <<"g", ".", "h", ".", "s", "d">>,            \* host g on h.sd
     <<"g", ".", "s", "d">>,                      \* host g on sd
     <<"h", ".", "s">>,                           \* a dot within the last two characters
     <<".", "s", "d">>,                           \* a dot at position 0
     <<"x", "x">>}                                \* no dot, no such domain

InitResolve ==
    /\ op = "_resolve_domain"
    /\ manifest \in {<<[name |-> <<"a">>, routes |-> <<[route |-> r]>>]>> : r \in ResolveStrings}
    /\ organization \in ResolveOrganizations
    /\ idx = 1
    /\ pc = "resolve"
    /\ app = Some(AppA)
    /\ apps = {AppA}
    /\ routes = ExistingRoutes
    /\ app_routes = {}
    /\ service_bindings = {}
    /\ next_guid = FirstNewGuid
    /\ log = <<<<>>>>
    /\ err = NoError
    /\ ret = None

NextResolve == ResolveDomain \/ RouteApplication

SpecResolve == InitResolve /\ [][NextResolve]_vars

\* ----------------------------------------------------------- _init_application
\* Line 16-19 of push: an entry is pushed when it has a path or a docker key.
Pushed(app_manifest) == "path" \in DOMAIN app_manifest \/ "docker" \in DOMAIN app_manifest

InitApplication ==
    /\ pc = "entry"
    /\ Pushed(manifest[idx])
    /\ LET r == _init_application(World, space, manifest[idx])
       IN  /\ Becomes(r.w)
           /\ err' = r.err
           /\ app' = r.ret
           /\ pc' = IF r.err /= NoError THEN "failed"
                    ELSE IF op /= "push" THEN "returned"
                    ELSE "route"
    /\ UNCHANGED <<ret, op, manifest, organization, idx>>

InitInit ==
    /\ op = "_init_application"
    /\ manifest \in {<<e>> : e \in InitEntries}
    /\ organization \in Organizations
    /\ idx = 1
    /\ pc = "entry"
    /\ app = None
    /\ apps \in {{}, {AppA}, {[AppA EXCEPT !["entity"] = Without(@, "environment_json")]}}
    /\ routes = ExistingRoutes
    /\ app_routes = {}
    /\ service_bindings = {}
    /\ next_guid = FirstNewGuid
    /\ log = <<<<>>>>
    /\ err = NoError
    /\ ret = None

NextInit == InitApplication

SpecInit == InitInit /\ [][NextInit]_vars

\* ------------------------------------------------------------------------ push
\* An entry with neither a path nor a docker key: the loop moves on.
SkipEntry ==
    /\ pc = "entry"
    /\ op = "push"
    /\ ~Pushed(manifest[idx])
    /\ Advance
    /\ UNCHANGED <<ret, op, manifest, organization, app, apps, routes, app_routes,
                   service_bindings, next_guid, err>>

UploadApplication ==
    /\ pc = "upload"
    /\ LET r == _upload_application(World, The(app), manifest[idx])
       IN  /\ Becomes(r.w)
           /\ err' = r.err
           /\ pc' = IF r.err /= NoError THEN "failed" ELSE "bind"
    /\ UNCHANGED <<ret, op, manifest, organization, idx, app>>

BindServices ==
    /\ pc = "bind"
    /\ LET r == _bind_services(World, The(app), manifest[idx])
       IN  /\ Becomes(r.w)
           /\ err' = r.err
           /\ pc' = IF r.err /= NoError THEN "failed" ELSE "restart"
    /\ UNCHANGED <<ret, op, manifest, organization, idx, app>>

RestartApplication ==
    /\ pc = "restart"
    /\ LET r == _restart_application(World)
       IN  /\ apps' = r.w.apps
           /\ routes' = r.w.routes
           /\ app_routes' = r.w.app_routes
           /\ service_bindings' = r.w.service_bindings
           /\ next_guid' = r.w.next_guid
           /\ err' = r.err
           /\ idx' = idx + 1
           /\ pc' = IF idx + 1 > Len(manifest) THEN "done" ELSE "entry"
           /\ log' = IF idx + 1 > Len(manifest)
                     THEN [log EXCEPT ![Len(log)] = r.w.log]
                     ELSE Append([log EXCEPT ![Len(log)] = r.w.log], <<>>)
    /\ UNCHANGED <<ret, op, manifest, organization, app>>

Init ==
    /\ op = "push"
    /\ manifest \in Manifests
    /\ organization \in Organizations
    /\ idx = 1
    /\ pc = "entry"
    /\ app = None
    /\ apps \in {{}, {AppA}}
    /\ routes = ExistingRoutes
    /\ app_routes = {<<a["metadata"]["guid"], r["metadata"]["guid"]>> :
                        a \in apps, r \in ExistingRoutes}
    /\ service_bindings = {}
    /\ next_guid = FirstNewGuid
    /\ log = <<<<>>>>
    /\ err = NoError
    /\ ret = None

Next ==
    \/ InitApplication
    \/ SkipEntry
    \/ RouteApplication
    \/ UploadApplication
    \/ BindServices
    \/ RestartApplication

Spec == Init /\ [][Next]_vars

\* ---------------------------------------------------------------- properties
\* What the properties read off a state.
Entry == manifest[IF idx > Len(manifest) THEN Len(manifest) ELSE idx]
NoRoute(e) == Get(e, "no-route", FALSE)
Declared(e) == IF "routes" \in DOMAIN e THEN e["routes"] ELSE <<>>
AppGuid == The(app)["metadata"]["guid"]
\* The guids of the routes associated with the application in associations ar.
Associated(ar) == {g \in {p[2] : p \in ar} : <<AppGuid, g>> \in ar}
AssociatedRoutes(rs, ar) == {r \in rs : r["metadata"]["guid"] \in Associated(ar)}
\* The positions in a log segment of the calls with one of the names.
CallsNamed(segment, names) == {i \in 1..Len(segment) : segment[i].call \in names}
CreateRoute == {"routes.create_host_route", "routes.create_tcp_route"}
ThisLog == log[Len(log)]
\* The domains registered with the organization, private and shared.
Registered ==
    {organization.private_domains[i] : i \in 1..Len(organization.private_domains)}
    \cup {organization.shared_domains[i] : i \in 1..Len(organization.shared_domains)}
IsTcp(d) == Get(d["entity"], "router_group_type", "") = "tcp"

\* C1: for an entry with no-route set, route reconciliation ends without error
\* and leaves the application with no associated route, whatever was
\* associated before; the route resources themselves all remain.
C1_NoRouteDetachesAll ==
    [][(pc = "route" /\ NoRoute(Entry)) =>
        /\ err' = NoError
        /\ Associated(app_routes') = {}
        /\ routes' = routes]_vars

C1_Witness ==
    /\ op = "_route_application"
    /\ pc = "returned"
    /\ NoRoute(Entry)
    /\ Cardinality(CallsNamed(log[1], {"apps.remove_route"})) = Cardinality(ExistingRoutes)
    /\ Associated(app_routes) = {}
    /\ routes = ExistingRoutes

\* The case of C2: no-route not set, no route declared (key absent or empty
\* list), no route associated with the application.
DefaultCase ==
    /\ pc = "route"
    /\ ~NoRoute(Entry)
    /\ Declared(Entry) = <<>>
    /\ Associated(app_routes) = {}

\* Position i is the first shared domain, in list order, that is not internal.
FirstEligible(i) ==
    /\ i \in 1..Len(organization.shared_domains)
    /\ ~organization.shared_domains[i]["entity"]["internal"]
    /\ \A j \in 1..(i - 1) : organization.shared_domains[j]["entity"]["internal"]

\* '<app-name>-<unix-seconds>' for the seconds of Times, written out.
StampedNames == {The(app)["entity"]["name"] \o <<"-", "7">>,
                 The(app)["entity"]["name"] \o <<"-", "1", "2">>}

\* The step creates exactly the route r and associates exactly it.
CreatesOnly(r) ==
    /\ r \notin routes
    /\ routes' = routes \cup {r}
    /\ app_routes' = app_routes \cup {<<AppGuid, r["metadata"]["guid"]>>}
    /\ Cardinality(CallsNamed(log'[Len(log')], CreateRoute)) = 1
    /\ Cardinality(CallsNamed(log'[Len(log')], {"apps.associate_route"})) = 1

\* The route r is the default route on the shared domain at position i.
IsDefaultRoute(r, i) ==
    LET d == organization.shared_domains[i] IN
    /\ r["entity"]["domain_guid"] = d["metadata"]["guid"]
    /\ IF IsTcp(d)
       THEN r["entity"]["host"] = None /\ r["entity"]["port"] /= None
       ELSE /\ r["entity"]["port"] = None
            /\ IF Get(Entry, "random-route", FALSE)
               THEN \E h \in StampedNames : r["entity"]["host"] = Some(h)
               ELSE r["entity"]["host"] = Some(The(app)["entity"]["name"])

\* C2 as claimed: in the default case reconciliation creates exactly one route
\* and associates it, on the first shared domain that is not internal: a port
\* route if that domain is TCP, else a host route named after the application
\* (with '-<unix-seconds>' appended under random-route).
C2_Claimed ==
    [][DefaultCase =>
        \E r \in routes', i \in 1..Len(organization.shared_domains) :
            FirstEligible(i) /\ CreatesOnly(r) /\ IsDefaultRoute(r, i)]_vars

\* C2 (amended): the same, provided some shared domain is not internal; when
\* every shared domain is internal (or there is none) reconciliation fails
\* with ConfigurationError and creates and associates nothing.
C2_DefaultRoute ==
    [][DefaultCase =>
        IF \E i \in 1..Len(organization.shared_domains) : FirstEligible(i)
        THEN /\ err' = NoError
             /\ \E r \in routes', i \in 1..Len(organization.shared_domains) :
                    FirstEligible(i) /\ CreatesOnly(r) /\ IsDefaultRoute(r, i)
        ELSE /\ err'.kind = "ConfigurationError"
             /\ routes' = routes
             /\ app_routes' = app_routes
             /\ log' = log]_vars

C2_Witness ==
    /\ op = "_route_application"
    /\ pc = "returned"
    /\ Len(log) = 1
    /\ Get(Entry, "random-route", FALSE)
    /\ Declared(Entry) = <<>>
    /\ organization.shared_domains[1]["entity"]["internal"]
    /\ \E r \in routes \ ExistingRoutes :
        /\ routes = ExistingRoutes \cup {r}
        /\ Associated(app_routes) = {r["metadata"]["guid"]}
        /\ r["entity"]["domain_guid"] = SharedHttp["metadata"]["guid"]
        /\ r["entity"]["host"] = Some(<<"a", "-", "1", "2">>)

\* The declared route strings of the entry.
DeclaredString(i) == Declared(Entry)[i]["route"]

\* The string s declares port 44 on the domain d: '<name of d>:44'.
DeclaresPort(s, d) == s = d["entity"]["name"] \o <<":", "4", "4">>

\* C3 as claimed: a declared route '<domain>:<port>' naming a registered TCP
\* domain, with no route of the application on that domain and port, makes
\* reconciliation create exactly one TCP route on that domain with that port
\* and associate it with the application.
C3_Claimed ==
    [][(pc = "route" /\ ~NoRoute(Entry)) =>
        \A i \in 1..Len(Declared(Entry)) : \A d \in Registered :
            ( /\ IsTcp(d)
              /\ DeclaresPort(DeclaredString(i), d)
              /\ ~\E x \in AssociatedRoutes(routes, app_routes) :
                    /\ x["entity"]["domain_guid"] = d["metadata"]["guid"]
                    /\ x["entity"]["port"] = Some(44) )
            => \E r \in routes' \ routes :
                /\ r["entity"]["domain_guid"] = d["metadata"]["guid"]
                /\ r["entity"]["port"] = Some(44)
                /\ <<AppGuid, r["metadata"]["guid"]>> \in app_routes'
                /\ \A o \in routes' \ routes :
                    (o["entity"]["domain_guid"] = d["metadata"]["guid"]
                     /\ o["entity"]["port"] = Some(44)) => o = r]_vars

\* The string s declares host h and path p on the domain d: '<h>.<name of d><p>'.
DeclaresHost(s, h, d, p) == s = h \o <<".">> \o d["entity"]["name"] \o p

\* C4 as claimed: a declared route without a port that names a host on a
\* registered non-TCP domain, with no route of the application on that domain
\* and host, makes reconciliation create exactly one host route on that
\* domain, with that host and the declared path, and associate it.
C4_Claimed ==
    [][(pc = "route" /\ ~NoRoute(Entry)) =>
        \A i \in 1..Len(Declared(Entry)) :
            \A h \in {<<"h">>}, p \in {<<>>, <<"/", "c">>} :
                ( /\ \E d \in Registered : ~IsTcp(d) /\ DeclaresHost(DeclaredString(i), h, d, p)
                  /\ ~\E x \in AssociatedRoutes(routes, app_routes) : \E d \in Registered :
                        /\ ~IsTcp(d) /\ DeclaresHost(DeclaredString(i), h, d, p)
                        /\ x["entity"]["domain_guid"] = d["metadata"]["guid"]
                        /\ x["entity"]["host"] = Some(h) )
                => \E r \in routes' \ routes : \E d \in Registered :
                    /\ ~IsTcp(d) /\ DeclaresHost(DeclaredString(i), h, d, p)
                    /\ r["entity"]["domain_guid"] = d["metadata"]["guid"]
                    /\ r["entity"]["host"] = Some(h)
                    /\ r["entity"]["path"] = p
                    /\ <<AppGuid, r["metadata"]["guid"]>> \in app_routes']_vars

\* The route x is the declared string s: a host (possibly empty) and any path
\* on the domain of x, or a port on it.
Written(port) == IF port = 44 THEN <<"4", "4">> ELSE <<"?">>
IsDeclared(x, s) ==
    \E d \in Registered :
        /\ x["entity"]["domain_guid"] = d["metadata"]["guid"]
        /\ \/ /\ x["entity"]["port"] /= None
              /\ s = d["entity"]["name"] \o <<":">> \o Written(The(x["entity"]["port"]))
           \/ /\ x["entity"]["host"] /= None
              /\ \E p \in {<<>>, <<"/", "c">>} :
                    s = (IF The(x["entity"]["host"]) = <<>> THEN <<>>
                         ELSE The(x["entity"]["host"]) \o <<".">>)
                        \o d["entity"]["name"] \o p

\* The routes associated with the application include every declared route.
AllDeclaredAssociated ==
    /\ Declared(Entry) /= <<>>
    /\ \A i \in 1..Len(Declared(Entry)) :
        \E x \in AssociatedRoutes(routes, app_routes) : IsDeclared(x, DeclaredString(i))

\* C5: route reconciliation run again with the same entry after it returned,
\* or run on an application whose associated routes already include every
\* declared route, creates no route resource: it issues no create_host_route
\* and no create_tcp_route call.
C5_RepushCreatesNothing ==
    [][(pc = "route" /\ (Len(log) > 1 \/ AllDeclaredAssociated)) =>
        /\ routes' = routes
        /\ CallsNamed(log'[Len(log')], CreateRoute) = {}]_vars

\* A second run after a first that created the default route, and a run on an
\* application that has the declared routes.
C5_Witness ==
    /\ op = "_route_application"
    /\ pc \in {"returned", "failed"}
    /\ Len(log) = MaxRuns
    /\ CallsNamed(log[1], CreateRoute) /= {}
    /\ CallsNamed(log[Len(log)], CreateRoute) = {}
    /\ Cardinality(routes) = Cardinality(ExistingRoutes) + 1

\* The application of the space that had the entry's name before the push
\* (the platform gives the resources it creates guids from FirstNewGuid on).
Preexisting(e) ==
    {a \in apps : a["entity"]["name"] = e["name"] /\ a["metadata"]["guid"] < FirstNewGuid}
\* _init_application has ended for the entry at hand.
InitEnded == op = "_init_application" /\ pc \in {"returned", "failed"}
\* The update requests sent for the entry at hand: <<application guid, request>>.
UpdatesSent == {ThisLog[i].args : i \in CallsNamed(ThisLog, {"apps.update"})}
CreatesSent == {ThisLog[i].args : i \in CallsNamed(ThisLog, {"apps.create"})}

\* The environment e overlaid with the manifest's env entries.
Overlaid(existing, e) ==
    LET old == Get(existing["entity"], "environment_json", EmptyDict)
        new == Get(e, "env", EmptyDict)
    IN  [k \in DOMAIN old \cup DOMAIN new |-> IF k \in DOMAIN new THEN new[k] ELSE old[k]]

\* C6 as claimed: when the application already exists, an update request is
\* sent whose environment is the existing environment overlaid with the
\* manifest's env entries (existing keys kept, manifest keys present, the
\* manifest winning a collision).
C6_Claimed ==
    InitEnded =>
        \A a \in Preexisting(Entry) :
            \E u \in UpdatesSent :
                /\ "environment_json" \in DOMAIN u[2]
                /\ u[2]["environment_json"] = Overlaid(a, Entry)

\* C7 as claimed: application resolution issues exactly one of create or
\* update: one create carrying the space id and no update when the name is
\* not in the space, one update addressed to the existing application's id
\* and no create when it is.
C7_Claimed ==
    InitEnded =>
        IF Preexisting(Entry) = {}
        THEN /\ Cardinality(CallsNamed(ThisLog, {"apps.create"})) = 1
             /\ CallsNamed(ThisLog, {"apps.update"}) = {}
             /\ \A c \in CreatesSent : c[1]["space_guid"] = space["metadata"]["guid"]
        ELSE /\ Cardinality(CallsNamed(ThisLog, {"apps.update"})) = 1
             /\ CallsNamed(ThisLog, {"apps.create"}) = {}
             /\ \A u \in UpdatesSent : \E a \in Preexisting(Entry) : u[1] = a["metadata"]["guid"]

\* The errors the push is specified to stop an entry with before its restart.
SpecifiedErrors ==
    {"ConfigurationError", "InvalidRouteFormat", "ConflictingAttributes", "DomainNotFound",
     "MissingPort", "UnsupportedPort", "ServiceNotFound"}
\* The processing of entry i has ended.
EntryEnded(i) == i < idx \/ (i = idx /\ pc \in {"done", "failed"})
\* A stop call followed, later, by a start call, and no start before the stop.
StoppedThenStarted(segment) ==
    \E i \in CallsNamed(segment, {"apps.stop"}) :
        /\ \E j \in CallsNamed(segment, {"apps.start"}) : i < j
        /\ \A j \in CallsNamed(segment, {"apps.start"}) : i < j

\* C8 as claimed: every pushed entry (path-based or docker-based) whose
\* application was created or updated and whose processing ended, other than
\* with one of the errors specified to stop it, has had the application
\* stopped and then started.
C8_Claimed ==
    op = "push" =>
        \A i \in 1..Len(log) :
            ( /\ Pushed(manifest[i])
              /\ CallsNamed(log[i], {"apps.create", "apps.update"}) /= {}
              /\ EntryEnded(i)
              /\ ~(pc = "failed" /\ i = idx /\ err.kind \in SpecifiedErrors) )
            => StoppedThenStarted(log[i])

\* The service names of the entry, and the first position naming no instance.
Services(e) == Get(e, "services", <<>>)
Known(name) == \E s \in ServiceInstances : s["entity"]["name"] = name
GuidOf(name) == (CHOOSE s \in ServiceInstances : s["entity"]["name"] = name)["metadata"]["guid"]
FirstUnknown(list) ==
    IF \E k \in 1..Len(list) : ~Known(list[k])
    THEN CHOOSE k \in 1..Len(list) : ~Known(list[k]) /\ \A j \in 1..(k - 1) : Known(list[j])
    ELSE Len(list) + 1

\* C9: the binding step binds, in order, the services listed before the first
\* name without an instance and then fails with ServiceNotFound, binding
\* neither that name nor any listed after it; with every name known it binds
\* them all; and no other step creates a binding.
C9_BindStopsAtUnknown ==
    [][IF pc = "bind"
       THEN LET list == Services(Entry)
                k == FirstUnknown(list)
            IN  /\ service_bindings' =
                     service_bindings \cup {<<AppGuid, GuidOf(list[j])>> : j \in 1..(k - 1)}
                /\ log'[idx] = log[idx] \o
                     [j \in 1..(k - 1) |->
                        Call("service_bindings.create", <<AppGuid, GuidOf(list[j])>>)]
                /\ IF k <= Len(list)
                   THEN err'.kind = "ServiceNotFound" /\ pc' = "failed"
                   ELSE err' = NoError
       ELSE service_bindings' = service_bindings]_vars

C9_Witness ==
    /\ op = "push"
    /\ pc = "failed"
    /\ err.kind = "ServiceNotFound"
    /\ Services(Entry) = <<"db", "nosuch", "mq">>
    /\ service_bindings = {<<AppGuid, "si-db">>}
    /\ Cardinality(CallsNamed(ThisLog, {"service_bindings.create"})) = 1

\* The network location of declared route i, and the positions (from 1) of
\* its colons.
Netloc(i) == urlparse(DeclaredString(i)).netloc
Colons(n) == {k \in 1..Len(n) : n[k] = ":"}
\* Position k of n is position 0 or one of the last two.
Misplaced(n, k) == k = 1 \/ k >= Len(n) - 1

Before(i) ==
    _build_new_requested_routes(World, organization, The(app),
                                app_routes_of(World, The(app)),
                                Upto(Declared(Entry), i - 1))
GetsTo(i) == ~NoRoute(Entry) /\ Before(i).err = NoError

FirstColon(n) == CHOOSE k \in Colons(n) : \A j \in Colons(n) : k <= j
SpecifiesPort(n) ==
    /\ Colons(n) /= {}
    /\ ~Misplaced(n, FirstColon(n))
    /\ \A j \in (FirstColon(n) + 1)..Len(n) : IsDigit(n[j])
\* Declared route i gives a path other than '' and '/'.
SpecifiesPath(i) == urlparse(DeclaredString(i)).path \notin {<<>>, <<"/">>}

\* C11: when reconciliation gets to a declared route that gives both a
\* non-empty path and a port, it fails with ConflictingAttributes at the
\* path/port validation, before the route's domain is looked up by name (so
\* also when that domain is not registered), and it creates and associates no
\* route for that declared route and issues no call for it.
C11_PathAndPortRefused ==
    [][pc = "route" =>
        \A i \in 1..Len(Declared(Entry)) :
            (GetsTo(i) /\ SpecifiesPort(Netloc(i)) /\ SpecifiesPath(i))
            => /\ err' = Error("ConflictingAttributes", "122")
               /\ pc' = "failed"
               /\ routes' = Before(i).w.routes
               /\ app_routes' = Before(i).w.app_routes
               /\ log'[Len(log')] = Before(i).w.log]_vars

\* A route with a path and a port on a domain that is not registered, refused
\* after the route declared before it was processed.
C11_Witness ==
    /\ op = "_route_application"
    /\ pc = "failed"
    /\ err = Error("ConflictingAttributes", "122")
    /\ Len(Declared(Entry)) = 2
    /\ DeclaredString(1) = <<"s", "d">>
    /\ DeclaredString(2) = <<"x", "x", ":", "4", "4", "/", "c">>
    /\ routes = ExistingRoutes
    /\ Associated(app_routes) /= {}

\* The sequence a is a prefix of the sequence b.
IsPrefix(a, b) == Len(a) <= Len(b) /\ \A k \in 1..Len(a) : a[k] = b[k]
\* The guids of a set of resources.
Guids(S) == {x["metadata"]["guid"] : x \in S}

\* C12: push is fail-fast without rollback. No step is taken once an
\* exception was raised (no later step of the entry, no later entry); and the
\* step that raises ends the push at the entry at hand and undoes nothing:
\* the applications, routes, associations and bindings that existed before it
\* are still there, and so are the calls issued for the entry so far.
C12_FailFastNoRollback ==
    [][/\ err = NoError
       /\ err' /= NoError =>
            /\ pc' = "failed"
            /\ idx' = idx
            /\ Len(log') = idx
            /\ Guids(apps) \subseteq Guids(apps')
            /\ routes \subseteq routes'
            /\ NoRoute(Entry) \/ app_routes \subseteq app_routes'
            /\ service_bindings \subseteq service_bindings'
            /\ IsPrefix(log[idx], log'[idx])]_vars

\* The first of two entries fails in route reconciliation after its
\* application was created: the application remains and the second entry is
\* not attempted.
C12_Witness ==
    /\ op = "push"
    /\ pc = "failed"
    /\ err.kind = "DomainNotFound"
    /\ idx = 1
    /\ Len(manifest) = 2
    /\ Len(log) = 1
    /\ CallsNamed(log[1], {"apps.create"}) /= {}
    /\ \E a \in apps : a["metadata"]["guid"] >= FirstNewGuid /\ a["entity"]["name"] = Entry["name"]

\* Declared route i as the loop body reads it: split into domain, port and
\* path, and its domain resolved in the organization's listings.
SplitOf(i) == _split_route(Declared(Entry)[i])
ResolvedOf(i) ==
    _resolve_domain(SplitOf(i).domain, DomainDict(organization.private_domains),
                    DomainDict(organization.shared_domains))
\* Declared route i asks for a route that can be created: a port and no host
\* and no path on a TCP domain, or a host (possibly empty) and no port on a
\* domain that is not TCP.
Creatable(i) ==
    /\ SplitOf(i).err = NoError
    /\ ResolvedOf(i).err = NoError
    /\ IF IsTcp(ResolvedOf(i).domain)
       THEN /\ SplitOf(i).port /= None
            /\ SplitOf(i).path = <<>>
            /\ ResolvedOf(i).host = Some(<<>>)
       ELSE SplitOf(i).port = None
\* The existing route x of the application matches declared route i: on
\* (domain id, port) for a TCP domain, on (domain id, host) otherwise.
MatchesDeclared(x, i) ==
    /\ x["entity"]["domain_guid"] = ResolvedOf(i).domain["metadata"]["guid"]
    /\ IF IsTcp(ResolvedOf(i).domain)
       THEN x["entity"]["port"] = SplitOf(i).port
       ELSE x["entity"]["host"] = ResolvedOf(i).host

\* C13 as claimed: when reconciliation gets to the last declared route and it
\* asks for a route that can be created, creation is skipped (reconciliation
\* ends without error having created and associated nothing for it) if and
\* only if some route the application had before matches it; routes of the
\* application that do not match do not suppress its creation.
C13_Claimed ==
    [][pc = "route" =>
        \A i \in {Len(Declared(Entry))} \ {0} :
            (GetsTo(i) /\ Creatable(i))
            => ( ( /\ err' = NoError
                   /\ routes' = Before(i).w.routes
                   /\ app_routes' = Before(i).w.app_routes )
                 <=> \E x \in AssociatedRoutes(routes, app_routes) : MatchesDeclared(x, i) )]_vars

\* C14 as claimed: when the entry declares no route (routes key absent or an
\* empty list), no-route is not true and the application has at least one
\* associated route, reconciliation completes without error and creates,
\* associates and detaches nothing.
C14_Claimed ==
    [][( /\ pc = "route"
         /\ ~NoRoute(Entry)
         /\ Declared(Entry) = <<>>
         /\ Associated(app_routes) /= {} )
       => /\ err' = NoError
          /\ pc' /= "failed"
          /\ routes' = routes
          /\ app_routes' = app_routes]_vars

\* C15: when no-route is not true, route reconciliation detaches and deletes
\* nothing: every association and every route resource there was before the
\* run is there after it, and no remove_route call is issued, whether the run
\* returns or raises and whatever the entry declares.
C15_NeverDetaches ==
    [][(pc = "route" /\ ~NoRoute(Entry)) =>
        /\ app_routes \subseteq app_routes'
        /\ routes \subseteq routes'
        /\ CallsNamed(log'[Len(log')], {"apps.remove_route"}) = {}]_vars

\* A run that declared a route the application did not have and ended (here
\* with the routes the application had left as they were).
C15_Witness ==
    /\ op = "_route_application"
    /\ pc \in {"returned", "failed"}
    /\ ~NoRoute(Entry)
    /\ Len(Declared(Entry)) = 2
    /\ DeclaredString(1) = <<"s", "d">>
    /\ Associated(app_routes) = Guids(ExistingRoutes)
    /\ routes = ExistingRoutes

\* C16 as claimed: when reconciliation gets to a declared route that carries a
\* port (and no path) and whose domain resolves, with an empty host, to a
\* domain that is not TCP, it fails with UnsupportedPort and creates no route
\* for it.
C16_Claimed ==
    [][pc = "route" =>
        \A i \in 1..Len(Declared(Entry)) :
            ( /\ GetsTo(i)
              /\ SplitOf(i).err = NoError
              /\ SplitOf(i).port /= None
              /\ SplitOf(i).path = <<>>
              /\ ResolvedOf(i).err = NoError
              /\ ResolvedOf(i).host = Some(<<>>)
              /\ ~IsTcp(ResolvedOf(i).domain) )
            => /\ err'.kind = "UnsupportedPort"
               /\ routes' = Before(i).w.routes]_vars

\* The place of a platform call in the order of an entry's steps.
Rank(call) ==
    IF call \in {"apps.create", "apps.update"} THEN 1
    ELSE IF call \in CreateRoute \cup {"apps.associate_route", "apps.remove_route"} THEN 2
    ELSE IF call = "service_bindings.create" THEN 3
    ELSE IF call = "apps.stop" THEN 4
    ELSE 5
\* The binding calls of a log segment, in the order issued.
RECURSIVE BindingCalls(_)
BindingCalls(segment) ==
    IF segment = <<>> THEN <<>>
    ELSE IF segment[1].call = "service_bindings.create"
         THEN <<segment[1]>> \o BindingCalls(Tail(segment))
         ELSE BindingCalls(Tail(segment))

\* C17: the calls issued for one manifest entry come in the order application
\* create or update, route reconciliation calls, service binding creations,
\* stop, start, and the first of them is the create or update; while route
\* reconciliation has not finished no binding, stop or start was issued; and
\* when the application was stopped or started every listed service had been
\* bound, in list order.
C17_CallOrder ==
    op = "push" =>
        /\ \A i \in 1..Len(log) :
            /\ \A j, k \in 1..Len(log[i]) :
                j < k => Rank(log[i][j].call) <= Rank(log[i][k].call)
            /\ log[i] /= <<>> => Rank(log[i][1].call) = 1
            /\ CallsNamed(log[i], {"apps.stop", "apps.start"}) /= {} =>
                \E a \in apps :
                    /\ a["entity"]["name"] = manifest[i]["name"]
                    /\ BindingCalls(log[i]) =
                         [j \in 1..Len(Services(manifest[i])) |->
                            Call("service_bindings.create",
                                 <<a["metadata"]["guid"], GuidOf(Services(manifest[i])[j])>>)]
        /\ pc \in {"entry", "route", "upload"} =>
                \A j \in 1..Len(ThisLog) : Rank(ThisLog[j].call) <= 2

\* A docker entry with two services pushed to the end: create, default route
\* and its association, two bindings, stop, start.
C17_Witness ==
    /\ op = "push"
    /\ pc = "done"
    /\ Len(manifest) = 1
    /\ Services(manifest[1]) = <<"db", "mq">>
    /\ [j \in 1..Len(log[1]) |-> log[1][j].call] =
         <<"apps.create", "routes.create_host_route", "apps.associate_route",
           "service_bindings.create", "service_bindings.create", "apps.stop", "apps.start">>

\* The domains of a listing with the name n, and the first dot of a string.
Named(listing, n) == {listing[k] : k \in {j \in 1..Len(listing) : listing[j]["entity"]["name"] = n}}
Dots(r) == {k \in 1..Len(r) : r[k] = "."}
FirstDot(r) == CHOOSE k \in Dots(r) : \A j \in Dots(r) : k <= j
\* The match of the route string r in one scope, as the set of the triples
\* <<host, domain name, domain>> (none or one): the full string as a domain
\* name with the host empty; failing that, the string split at its first dot,
\* when the dot leaves a host before it and two characters or more after it.
MatchIn(r, listing) ==
    IF Named(listing, r) /= {}
    THEN {<<<<>>, r, d>> : d \in Named(listing, r)}
    ELSE IF Dots(r) /= {} /\ FirstDot(r) > 1 /\ FirstDot(r) < Len(r) - 1
    THEN {<<SubSeq(r, 1, FirstDot(r) - 1), SubSeq(r, FirstDot(r) + 1, Len(r)), d>> :
            d \in Named(listing, SubSeq(r, FirstDot(r) + 1, Len(r)))}
    ELSE {}
\* Any match in the private scope, else any match in the shared scope.
PrivateThenShared(r) ==
    IF MatchIn(r, organization.private_domains) /= {}
    THEN MatchIn(r, organization.private_domains)
    ELSE MatchIn(r, organization.shared_domains)

\* C18: resolution of a declared route returns its match in the private scope
\* if there is one (the full string as a domain name before the split at the
\* first dot), else its match in the shared scope, and fails with
\* DomainNotFound when neither scope matches; route reconciliation of such a
\* route fails with DomainNotFound and creates and associates nothing.
C18_PrivateBeforeShared ==
    [][/\ pc = "resolve" =>
            /\ ret' = PrivateThenShared(DeclaredString(1))
            /\ ret' = None <=> err'.kind = "DomainNotFound"
       /\ (pc = "route" /\ op = "_resolve_domain"
                        /\ PrivateThenShared(DeclaredString(1)) = {}) =>
            /\ err'.kind = "DomainNotFound"
            /\ pc' = "failed"
            /\ routes' = routes
            /\ app_routes' = app_routes
            /\ log' = log]_vars

\* 'h.sd' resolved where the private scope holds 'sd' and the shared scope
\* holds 'h.sd': the split match in the private scope wins over the exact
\* match in the shared scope.
C18_Witness ==
    /\ op = "_resolve_domain"
    /\ pc = "route"
    /\ DeclaredString(1) = <<"h", ".", "s", "d">>
    /\ organization.private_domains = <<PrivateSd>>
    /\ organization.shared_domains = <<SharedSd, SharedHSd>>
    /\ ret = Some(<<<<"h">>, <<"s", "d">>, PrivateSd>>)

\* C19 as claimed: when the entry has a docker block without an image key, the
\* request built from the entry (here the one the create call carries) still
\* has the docker key with the manifest's value, and has no docker_image,
\* diego or docker_credentials key.
C19_Claimed ==
    (InitEnded /\ "docker" \in DOMAIN Entry /\ "image" \notin DOMAIN Entry["docker"]) =>
            \A c \in CreatesSent :
                /\ "docker" \in DOMAIN c[1]
                /\ c[1]["docker"] = Entry["docker"]
                /\ DOMAIN c[1] \cap {"docker_image", "diego", "docker_credentials"} = {}

\* C20 as claimed: every entry of the manifest that push has got past (no
\* earlier entry failed) had its application created or updated, or raised an
\* error: no entry is passed over without a platform call.
C20_Claimed ==
    op = "push" =>
        \A i \in 1..Len(manifest) :
            EntryEnded(i) =>
                \/ CallsNamed(log[i], {"apps.create", "apps.update"}) /= {}
                \/ i = idx /\ pc = "failed" /\ err /= NoError

====
